---- MODULE Spec2Model ----
(***************************************************************************)
(* audio-lib3 (src/lib.rs): the Sound sample store, the Control trait      *)
(* implemented for SoundDevice = AudioDevice<Sound>, and the               *)
(* AudioCallback implementation that mixes the store into an output block. *)
(*                                                                         *)
(* Two contexts share the store: one control context calling the Control   *)
(* methods (each starts with self.lock()) and the backend's audio thread   *)
(* that runs Sound::callback with the device lock held.  Every method is   *)
(* modelled at the granularity of its lock acquisition and of one loop     *)
(* iteration, so that interleavings are those the lock allows.             *)
(***************************************************************************)
EXTENDS Integers, Sequences, FiniteSets, TLC

\* ---------------------------------------------------------------- constants
SETUP_U8 == 128
SETUP_U16 == 32768
U8_MAX == 255
U16_MAX == 65535

\* ------------------------------------------------------------------- bounds
\* width of usize in the model (the program's is 32 or 64)
UsizeBits == 3
\* largest len passed to open_device
MaxLen == 3
\* longest slice passed to set_data
MaxSound == 2
\* largest output block handed to the callback
MaxBlock == 2
\* the audio thread stops being scheduled after this many samples / blocks
MaxSamples == 3
MaxCalls == 2
\* largest small volume level tried in the gain-ladder specification
MaxVolume == 9

UsizeMod == 2 ^ UsizeBits
U16Mod == U16_MAX + 1

\* raw samples written by set_data: the neutral code and a loud one
RawInputs == {SETUP_U8, U8_MAX}
\* values passed to set_volume
VolumeInputs == {0, 7, U16_MAX}
\* slices passed to set_data
Sounds == UNION {[1..k -> RawInputs] : k \in 0..MaxSound}
Offsets == 0..(UsizeMod - 1)

VARIABLES
  buffer,           \* Sound.buffer, a sequence (index i of the code is i+1 here)
  buf_size,         \* Sound.buf_size
  volume,           \* Sound.volume
  mute,             \* Sound.mute
  current,          \* Sound.current
  called,           \* Sound.called
  overflow_checks,  \* whether the build panics on integer overflow (debug) or wraps (release)
  lock,             \* holder of the device lock: "free", "control" or "audio"
  ctl,              \* the control context: the Control method in progress
  audio_pc,         \* the audio thread: "idle", "wait", "in", "done", "panicked"
  out_len,          \* length of the output block of the callback in progress
  out,              \* the samples the callback in progress has written so far
  produced,         \* observer: samples written by all completed callbacks
  completed,        \* observer: number of completed callbacks
  rt                \* observer: samples mixed since a full-buffer set_data(0, P)

vars == <<buffer, buf_size, volume, mute, current, called, overflow_checks,
          lock, ctl, audio_pc, out_len, out, produced, completed, rt>>

sound_vars == <<buffer, buf_size, volume, mute, current, called>>
audio_vars == <<audio_pc, out_len, out, produced, completed>>

\* ------------------------------------------------------------ control calls
CtlIdle ==
  [pc |-> "idle", op |-> "none", specifier |-> FALSE, level |-> 0,
   offset |-> 0, sound |-> <<>>, pos |-> 0, a |-> 1, ret |-> 0, ret_mute |-> FALSE]

Setters == {"set_mute", "set_volume", "set_data"}
Accessors == {"buf_size", "mute", "volume", "current", "called"}

Ops == Setters \cup Accessors

\* the arguments a call of op can carry. The body reads them only once lock() has
\* returned, so they are drawn there (lock_control)
Args(op) ==
  CASE op = "set_mute" -> {[CtlIdle EXCEPT !.specifier = s] : s \in BOOLEAN}
    [] op = "set_volume" -> {[CtlIdle EXCEPT !.level = v] : v \in VolumeInputs}
    [] op = "set_data" -> {[CtlIdle EXCEPT !.offset = o, !.sound = s] :
                             o \in Offsets, s \in Sounds}
    [] OTHER -> {CtlIdle}

RtNone == [active |-> FALSE, P |-> <<>>, start |-> 0, got |-> <<>>]

\* ------------------------------------------------------------- open_device
\* mutant: the device is opened at volume 1
open_device_audible(len) ==
  /\ buffer = [i \in 1..len |-> SETUP_U8]
  /\ buf_size = len
  /\ volume = 1
  /\ current = 0
  /\ mute = FALSE
  /\ called = 0

\* Sound { buffer: vec![SETUP_U8 as u8; len], buf_size: len, volume: 0,
\*         current: 0, mute: false, called: 0 }
open_device(len) ==
  /\ buffer = [i \in 1..len |-> SETUP_U8]
  /\ buf_size = len
  /\ volume = 0
  /\ current = 0
  /\ mute = FALSE
  /\ called = 0

Init ==
  /\ \E len \in 0..MaxLen : open_device(len)
  /\ overflow_checks \in BOOLEAN
  /\ lock = "free"
  /\ ctl = CtlIdle
  /\ audio_pc = "idle"
  /\ out_len = 0
  /\ out = <<>>
  /\ produced = 0
  /\ completed = 0
  /\ rt = RtNone

\* ------------------------------------------------------- the control context
\* a Control method is called; it blocks in self.lock() until the lock is free.
\* After a panic of the callback the process has aborted: nothing is called.
ControlCall ==
  /\ ctl.pc = "idle"
  /\ audio_pc # "panicked"
  /\ \E op \in Ops : ctl' = [CtlIdle EXCEPT !.pc = "lock", !.op = op]
  /\ UNCHANGED <<sound_vars, overflow_checks, lock, audio_vars, rt>>

\* mutant: lock() returns without waiting for the holder to unlock
lock_unchecked == TRUE

\* AudioDevice::lock(): returns the guard once no other context holds the device lock
lock_available == lock = "free"

\* let mut locked = self.lock();
lock_control ==
  /\ ctl.pc = "lock"
  /\ lock_available
  /\ lock' = "control"
  /\ \E c \in Args(ctl.op) :
       ctl' = [c EXCEPT !.pc = "in", !.op = ctl.op, !.pos = c.offset, !.a = 1]
  /\ rt' = IF ctl.op \in Setters THEN RtNone ELSE rt
  /\ UNCHANGED <<sound_vars, overflow_checks, audio_vars>>

\* mutant: set_mute returns without storing the flag
set_mute_not_stored ==
  /\ ctl.pc = "in"
  /\ ctl.op = "set_mute"
  /\ ctl' = [ctl EXCEPT !.pc = "ret"]
  /\ UNCHANGED <<sound_vars, overflow_checks, lock, audio_vars, rt>>

\* locked.mute = specifier;
set_mute ==
  /\ ctl.pc = "in"
  /\ ctl.op = "set_mute"
  /\ mute' = ctl.specifier
  /\ ctl' = [ctl EXCEPT !.pc = "ret"]
  /\ UNCHANGED <<buffer, buf_size, volume, current, called, overflow_checks, lock,
                 audio_vars, rt>>

\* mutant: set_volume clamps the level to the top of the gain ladder
set_volume_clamped ==
  /\ ctl.pc = "in"
  /\ ctl.op = "set_volume"
  /\ volume' = IF ctl.level > 7 THEN 7 ELSE ctl.level
  /\ ctl' = [ctl EXCEPT !.pc = "ret"]
  /\ UNCHANGED <<buffer, buf_size, mute, current, called, overflow_checks, lock,
                 audio_vars, rt>>

\* locked.volume = volume;
set_volume ==
  /\ ctl.pc = "in"
  /\ ctl.op = "set_volume"
  /\ volume' = ctl.level
  /\ ctl' = [ctl EXCEPT !.pc = "ret"]
  /\ UNCHANGED <<buffer, buf_size, mute, current, called, overflow_checks, lock,
                 audio_vars, rt>>

\* mutant: the position is used as the index without the modulo
data_index_no_mod(p, len) == p + 1

\* pos % len, as an index of the sequence
data_index(p, len) == (p % len) + 1

\* mutant: the loop forgets pos += 1
next_pos_stuck(p) == p

\* pos += 1 on a usize that does not overflow, or that wraps (no overflow checks)
next_pos(p) == (p + 1) % UsizeMod

\* one iteration of `for a in sound`: locked.buffer[pos % len] = *a; pos += 1;
set_data ==
  /\ ctl.pc = "in"
  /\ ctl.op = "set_data"
  /\ ctl.a <= Len(ctl.sound)
  /\ buf_size # 0
  /\ data_index(ctl.pos, buf_size) \in DOMAIN buffer
  /\ (ctl.pos + 1 < UsizeMod \/ ~overflow_checks)
  /\ buffer' = [buffer EXCEPT ![data_index(ctl.pos, buf_size)] = ctl.sound[ctl.a]]
  /\ ctl' = [ctl EXCEPT !.pos = next_pos(ctl.pos), !.a = @ + 1]
  /\ UNCHANGED <<buf_size, volume, mute, current, called, overflow_checks, lock,
                 audio_vars, rt>>

\* pos % len with len = 0 panics (remainder with a divisor of zero), as would an
\* index outside the buffer; the guard is dropped while unwinding
set_data_rem_panic ==
  /\ ctl.pc = "in"
  /\ ctl.op = "set_data"
  /\ ctl.a <= Len(ctl.sound)
  /\ IF buf_size = 0 THEN TRUE ELSE data_index(ctl.pos, buf_size) \notin DOMAIN buffer
  /\ ctl' = [CtlIdle EXCEPT !.pc = "panicked", !.op = "set_data"]
  /\ lock' = "free"
  /\ UNCHANGED <<sound_vars, overflow_checks, audio_vars, rt>>

\* pos += 1 at usize::MAX in a build with overflow checks: the element is written,
\* then the addition panics; the guard is dropped while unwinding
set_data_overflow_panic ==
  /\ ctl.pc = "in"
  /\ ctl.op = "set_data"
  /\ ctl.a <= Len(ctl.sound)
  /\ buf_size # 0
  /\ data_index(ctl.pos, buf_size) \in DOMAIN buffer
  /\ ctl.pos + 1 >= UsizeMod
  /\ overflow_checks
  /\ buffer' = [buffer EXCEPT ![data_index(ctl.pos, buf_size)] = ctl.sound[ctl.a]]
  /\ ctl' = [CtlIdle EXCEPT !.pc = "panicked", !.op = "set_data"]
  /\ lock' = "free"
  /\ UNCHANGED <<buf_size, volume, mute, current, called, overflow_checks,
                 audio_vars, rt>>

\* buf_size(), mute(), volume(), current(), called(): read one field under the lock
accessor ==
  /\ ctl.pc = "in"
  /\ ctl.op \in Accessors
  /\ ctl' = [ctl EXCEPT !.pc = "ret",
                        !.ret = CASE ctl.op = "buf_size" -> buf_size
                                  [] ctl.op = "volume" -> volume
                                  [] ctl.op = "current" -> current
                                  [] ctl.op = "called" -> called
                                  [] OTHER -> 0,
                        !.ret_mute = IF ctl.op = "mute" THEN mute ELSE FALSE]
  /\ UNCHANGED <<sound_vars, overflow_checks, lock, audio_vars, rt>>

\* the method's body is over: its loop has run out, or its one statement is done
AtReturn ==
  \/ ctl.pc = "ret"
  \/ ctl.pc = "in" /\ ctl.op = "set_data" /\ ctl.a > Len(ctl.sound)

\* the method returns and `locked` is dropped, which unlocks the device
control_return ==
  /\ AtReturn
  /\ lock' = "free"
  /\ ctl' = CtlIdle
  /\ rt' = IF /\ ctl.op = "set_data"
              /\ ctl.offset = 0
              /\ Len(ctl.sound) = buf_size
              /\ buf_size >= 1
              /\ ~mute
              /\ volume = 7
           THEN [active |-> TRUE, P |-> ctl.sound, start |-> current, got |-> <<>>]
           ELSE rt
  /\ UNCHANGED <<sound_vars, overflow_checks, audio_vars>>

\* ---------------------------------------------------------- the audio thread
\* the backend starts an output period
AudioInvoke ==
  /\ audio_pc = "idle"
  /\ completed < MaxCalls
  /\ audio_pc' = "wait"
  /\ UNCHANGED <<sound_vars, overflow_checks, lock, ctl, out_len, out, produced,
                 completed, rt>>

\* the backend takes the device lock and runs the callback on a block of n samples
lock_audio ==
  /\ audio_pc = "wait"
  /\ lock = "free"
  /\ lock' = "audio"
  /\ audio_pc' = "in"
  /\ \E n \in 0..MaxBlock :
       /\ produced + n <= MaxSamples
       /\ out_len' = n
  /\ out' = <<>>
  /\ UNCHANGED <<sound_vars, overflow_checks, ctl, produced, completed, rt>>

\* mutant: every arm shifts by one bit less
scaled_shift_one_less(singed_sample, vol) ==
  CASE vol = 0 -> 0
    [] vol = 1 -> singed_sample * 2
    [] vol = 2 -> singed_sample * 4
    [] vol = 3 -> singed_sample * 8
    [] vol = 4 -> singed_sample * 16
    [] vol = 5 -> singed_sample * 32
    [] vol = 6 -> singed_sample * 64
    [] OTHER -> singed_sample * 128

\* mutant: the arm of level 4 repeats the shift of level 3
scaled_dup_level(singed_sample, vol) ==
  CASE vol = 0 -> 0
    [] vol = 1 -> singed_sample * 4
    [] vol = 2 -> singed_sample * 8
    [] vol = 3 -> singed_sample * 16
    [] vol = 4 -> singed_sample * 16
    [] vol = 5 -> singed_sample * 64
    [] vol = 6 -> singed_sample * 128
    [] OTHER -> singed_sample * 256

\* mutant: every arm shifts by one bit more
scaled_shift_one_more(singed_sample, vol) ==
  CASE vol = 0 -> 0
    [] vol = 1 -> singed_sample * 8
    [] vol = 2 -> singed_sample * 16
    [] vol = 3 -> singed_sample * 32
    [] vol = 4 -> singed_sample * 64
    [] vol = 5 -> singed_sample * 128
    [] vol = 6 -> singed_sample * 256
    [] OTHER -> singed_sample * 512

\* match self.volume { 0 => 0, 1 => s << 2, ..., 6 => s << 7, _ => s << 8 };
\* |s| <= 128, so the i32 shift is the multiplication
scaled_singed_sample(singed_sample, vol) ==
  CASE vol = 0 -> 0
    [] vol = 1 -> singed_sample * 4
    [] vol = 2 -> singed_sample * 8
    [] vol = 3 -> singed_sample * 16
    [] vol = 4 -> singed_sample * 32
    [] vol = 5 -> singed_sample * 64
    [] vol = 6 -> singed_sample * 128
    [] OTHER -> singed_sample * 256

\* *self.buffer.get(pos).unwrap_or(&(SETUP_U8 as u8))
raw_sample(p) == IF p + 1 \in DOMAIN buffer THEN buffer[p + 1] ELSE SETUP_U8

\* mutant: the test forgets self.mute
silent_ignores_mute == volume = 0

\* whether the sample is the silent one: if self.mute || self.volume == 0
silent == mute \/ volume = 0

\* mutant: the cursor is used as the index without the modulo
output_cursor_not_wrapped ==
  IF mute \/ volume = 0
  THEN 0
  ELSE scaled_singed_sample(raw_sample(current) - SETUP_U8, volume)

\* let output = if self.mute || self.volume == 0 { 0 } else { ... };
output ==
  IF silent
  THEN 0
  ELSE scaled_singed_sample(raw_sample(current % buf_size) - SETUP_U8, volume)

\* (output + SETUP_U16) as u16
dst == (output + SETUP_U16) % U16Mod

\* mutant: a silent sample does not advance the cursor
next_current_skips_silent(c) == IF mute \/ volume = 0 THEN c ELSE (c + 1) % UsizeMod

\* self.current += 1 on a usize that does not overflow, or that wraps
next_current(c) == (c + 1) % UsizeMod

\* one iteration of `for dst in out.iter_mut()`
callback ==
  /\ audio_pc = "in"
  /\ Len(out) < out_len
  /\ (silent \/ buf_size # 0)
  /\ (current + 1 < UsizeMod \/ ~overflow_checks)
  /\ out' = Append(out, dst)
  /\ current' = next_current(current)
  /\ rt' = IF rt.active /\ Len(rt.got) < Len(rt.P)
           THEN [rt EXCEPT !.got = Append(@, dst)]
           ELSE rt
  /\ UNCHANGED <<buffer, buf_size, volume, mute, called, overflow_checks, lock, ctl,
                 audio_pc, out_len, produced, completed>>

\* self.current % self.buf_size with buf_size = 0 panics in the audio thread; the
\* panic cannot unwind into the backend: the process aborts with the lock held
callback_panic ==
  /\ audio_pc = "in"
  /\ Len(out) < out_len
  /\ ~silent
  /\ buf_size = 0
  /\ audio_pc' = "panicked"
  /\ UNCHANGED <<sound_vars, overflow_checks, lock, ctl, out_len, out, produced,
                 completed, rt>>

\* mutant: called is counted per sample, inside the loop
next_called_per_sample(c) == (c + Len(out)) % UsizeMod

\* self.called += 1
next_called(c) == (c + 1) % UsizeMod

\* after the loop: self.called += 1; the block is complete
callback_return ==
  /\ audio_pc = "in"
  /\ Len(out) = out_len
  /\ (called + 1 < UsizeMod \/ ~overflow_checks)
  /\ called' = next_called(called)
  /\ audio_pc' = "done"
  /\ produced' = produced + Len(out)
  /\ completed' = completed + 1
  /\ out' = <<>>
  /\ out_len' = 0
  /\ UNCHANGED <<buffer, buf_size, volume, mute, current, overflow_checks, lock, ctl, rt>>

\* the backend releases the device lock after the callback
unlock_audio ==
  /\ audio_pc = "done"
  /\ lock' = "free"
  /\ audio_pc' = "idle"
  /\ UNCHANGED <<sound_vars, overflow_checks, ctl, out_len, out, produced, completed, rt>>

\* ------------------------------------------------------------ specification
Next ==
  \/ ControlCall
  \/ lock_control
  \/ set_mute
  \/ set_volume
  \/ set_data
  \/ set_data_rem_panic
  \/ set_data_overflow_panic
  \/ accessor
  \/ control_return
  \/ AudioInvoke
  \/ lock_audio
  \/ callback
  \/ callback_panic
  \/ callback_return
  \/ unlock_audio

Spec == Init /\ [][Next]_vars

\* ------------------------------------------------- gain-ladder specification
\* The mixing step as a function of the raw sample and the volume: a one-cell
\* store holding any u8 (open_device(1), then set_data(0, [r])) at any of the
\* volumes set_volume(v) can leave, driven by the audio thread alone.
MixVolumes == (0..MaxVolume) \cup {U16_MAX}

InitMix ==
  /\ buf_size = 1
  /\ buffer \in [1..1 -> 0..U8_MAX]
  /\ volume \in MixVolumes
  /\ mute = FALSE
  /\ current = 0
  /\ called = 0
  /\ overflow_checks \in BOOLEAN
  /\ lock = "free"
  /\ ctl = CtlIdle
  /\ audio_pc = "idle"
  /\ out_len = 0
  /\ out = <<>>
  /\ produced = 0
  /\ completed = 0
  /\ rt = RtNone

NextMix ==
  \/ AudioInvoke
  \/ lock_audio
  \/ callback
  \/ callback_return
  \/ unlock_audio

SpecMix == InitMix /\ [][NextMix]_vars

\* ------------------------------------------------- long-run specification
\* The audio thread alone, scheduled until the cursor has counted one sample
\* more than a usize holds: a store of len >= 1 cells as open_device(len) and a
\* set_volume(v) leave it.
InitWrap ==
  /\ \E len \in 1..MaxLen :
       /\ buffer = [i \in 1..len |-> SETUP_U8]
       /\ buf_size = len
  /\ volume \in VolumeInputs
  /\ mute = FALSE
  /\ current = 0
  /\ called = 0
  /\ overflow_checks \in BOOLEAN
  /\ lock = "free"
  /\ ctl = CtlIdle
  /\ audio_pc = "idle"
  /\ out_len = 0
  /\ out = <<>>
  /\ produced = 0
  /\ completed = 0
  /\ rt = RtNone

\* the backend starts an output period; called stays below its own overflow
AudioInvokeLong ==
  /\ audio_pc = "idle"
  /\ completed < UsizeMod - 1
  /\ produced <= UsizeMod
  /\ audio_pc' = "wait"
  /\ UNCHANGED <<sound_vars, overflow_checks, lock, ctl, out_len, out, produced,
                 completed, rt>>

\* the backend takes the device lock and runs the callback on a block of n samples
lock_audio_long ==
  /\ audio_pc = "wait"
  /\ lock = "free"
  /\ lock' = "audio"
  /\ audio_pc' = "in"
  /\ \E n \in 0..MaxBlock :
       /\ produced + n <= UsizeMod + 1
       /\ out_len' = n
  /\ out' = <<>>
  /\ UNCHANGED <<sound_vars, overflow_checks, ctl, produced, completed, rt>>

\* self.current += 1 at usize::MAX in a build with overflow checks: the sample
\* is written, then the addition panics in the audio thread
callback_overflow_panic ==
  /\ audio_pc = "in"
  /\ Len(out) < out_len
  /\ (silent \/ buf_size # 0)
  /\ current + 1 >= UsizeMod
  /\ overflow_checks
  /\ out' = Append(out, dst)
  /\ audio_pc' = "panicked"
  /\ UNCHANGED <<sound_vars, overflow_checks, lock, ctl, out_len, produced,
                 completed, rt>>

NextWrap ==
  \/ AudioInvokeLong
  \/ lock_audio_long
  \/ callback
  \/ callback_overflow_panic
  \/ callback_return
  \/ unlock_audio

SpecWrap == InitWrap /\ [][NextWrap]_vars

\* ------------------------------------------------------------------- claims
\* C1: whenever mute is true or volume is 0, every sample the callback writes to
\* the output block is the neutral 16-bit code 32768, whatever the buffer holds
\* and wherever the cursor is.
C1_SilentOutput ==
  (audio_pc = "in" /\ (mute \/ volume = 0)) =>
    \A i \in 1..Len(out) : out[i] = 32768

\* a muted block at full volume whose last sample was read at a loud cell
C1_Witness ==
  /\ audio_pc = "in"
  /\ mute
  /\ volume = 7
  /\ Len(out) = 2
  /\ buf_size >= 1
  /\ buffer[((current - 1) % buf_size) + 1] = U8_MAX

\* the cells a set_data(offset, sound) addresses, in exact arithmetic
Cell(offset, i) == ((offset + i) % buf_size) + 1

SetDataReturns == ctl.op = "set_data" /\ AtReturn

\* C2 as stated: after set_data(offset, samples) with a non-empty slice of any
\* length, the store holds samples[i] at (offset + i) % buf_size for every i.
C2_AsStated ==
  (SetDataReturns /\ Len(ctl.sound) > 0) =>
    \A i \in 0..(Len(ctl.sound) - 1) :
      buffer[Cell(ctl.offset, i)] = ctl.sound[i + 1]

\* C2 (amended): when no written position offset + i exceeds the largest usize,
\* after set_data(offset, samples) returns the store holds samples[i] at
\* (offset + i) % buf_size for each of the last min(len, buf_size) elements; the
\* earlier elements of a longer slice have been overwritten by the later ones.
C2_SetDataStoresSlice ==
  (SetDataReturns /\ Len(ctl.sound) > 0 /\ ctl.offset + Len(ctl.sound) <= UsizeMod) =>
    \A i \in 0..(Len(ctl.sound) - 1) :
      i >= Len(ctl.sound) - buf_size =>
        buffer[Cell(ctl.offset, i)] = ctl.sound[i + 1]

\* a slice of two different samples that wrapped at the end of a two-cell buffer
C2_Witness ==
  /\ SetDataReturns
  /\ buf_size = 2
  /\ ctl.offset = 1
  /\ ctl.sound = <<U8_MAX, SETUP_U8>>
  /\ buffer = <<SETUP_U8, U8_MAX>>

InCritical ==
  [control |-> ctl.pc \in {"in", "ret"}, audio |-> audio_pc \in {"in", "done"}]

\* C3: a control operation and a callback are never in their critical sections
\* at once (each holds the device lock while it is in it), and nothing changes
\* mute, volume or the buffer between two samples of one callback block.
C3_MutualExclusion ==
  /\ [](/\ ~(InCritical.control /\ InCritical.audio)
        /\ (InCritical.control => lock = "control")
        /\ (InCritical.audio => lock = "audio"))
  /\ [][audio_pc = "in" =>
          (mute' = mute /\ volume' = volume /\ buffer' = buffer)]_vars

\* set_volume is blocked in lock() while the callback is in the middle of a block
C3_Witness ==
  /\ ctl.pc = "lock"
  /\ ctl.op = "set_volume"
  /\ audio_pc = "in"
  /\ out_len = 2
  /\ Len(out) = 1

\* C4: the callback never fails, for a store of any length len >= 0 and after
\* any sequence of control operations.
C4_CallbackNeverFails == audio_pc # "panicked"

\* C5: current is the number of samples written by the completed callbacks plus
\* those of the block in progress: every sample advances it by one, muted or
\* not, and no control operation changes it.
C5_CurrentCountsSamples ==
  /\ current = produced + Len(out)
  /\ Len(out) <= out_len

\* a muted block of two samples is complete, after an earlier block
C5_Witness ==
  /\ audio_pc = "in"
  /\ mute
  /\ out_len = 2
  /\ Len(out) = 2
  /\ current = 3
  /\ ctl.pc = "lock"

\* C6: called is the number of completed callback invocations, whatever their
\* block sizes and whatever mute and volume are; no control operation changes it.
C6_CalledCountsCallbacks == called = completed

\* two invocations completed, one of them on an empty block, the store muted
C6_Witness ==
  /\ called = 2
  /\ current = 1
  /\ mute
  /\ volume = U16_MAX

\* the bias-shifted 16-bit value of an 8-bit sample at full gain
Shifted(raw) == (raw - 128) * 256 + 32768

\* C7 as stated: in any state with mute = false and volume = 7, after
\* set_data(0, P) with len(P) = buf_size the i-th sample produced next is the
\* bias-shifted P[i].
C7_AsStated ==
  rt.active =>
    \A i \in 1..Len(rt.got) : rt.got[i] = Shifted(rt.P[i])

\* C7 (amended): with mute = false and volume = 7, after set_data(0, P) with
\* len(P) = buf_size >= 1 and no setter called since, the i-th sample produced
\* next is the bias-shifted P[(c + i) % buf_size], where c is the value of
\* current when set_data returned: the pattern is reproduced from the cursor's
\* position on, and from P[0] exactly when c is a multiple of buf_size.
C7_RoundTripFromCursor ==
  rt.active =>
    \A i \in 1..Len(rt.got) :
      rt.got[i] = Shifted(rt.P[((rt.start + i - 1) % Len(rt.P)) + 1])

\* a two-sample pattern read back in full from an odd cursor
C7_Witness ==
  /\ rt.active
  /\ rt.P = <<U8_MAX, SETUP_U8>>
  /\ rt.start = 1
  /\ Len(rt.got) = 2

\* the raw sample the callback read for out[i]
RawRead(i) == buffer[((current - Len(out) + i - 1) % buf_size) + 1]

Min(a, b) == IF a <= b THEN a ELSE b

\* C8: with mute false, for every raw sample r in 0..255 and every volume
\* v >= 1 the emitted sample is (r - 128) * 2^(min(v, 7) + 1) + 32768.
C8_GainLadder ==
  (audio_pc = "in" /\ ~mute /\ volume >= 1) =>
    \A i \in 1..Len(out) :
      out[i] = (RawRead(i) - 128) * (2 ^ (Min(volume, 7) + 1)) + 32768

\* the lowest raw sample at the largest u16 volume is emitted as 0
C8_Witness ==
  /\ audio_pc = "in"
  /\ ~mute
  /\ volume = U16_MAX
  /\ buffer = <<0>>
  /\ out = <<0>>

Magnitude(x) == IF x >= 32768 THEN x - 32768 ELSE 32768 - x

\* the magnitude the ladder gives a raw sample at a level
LevelMagnitude(raw, level) ==
  Magnitude((scaled_singed_sample(raw - SETUP_U8, level) + SETUP_U16) % U16Mod)

\* C9: for a raw sample other than 128 and mute false, the magnitude
\* |output - 32768| of the emitted sample is strictly smaller than the one the
\* next level gives while the volume is below 7, and is that of level 7 for
\* every volume from 7 on.
C9_GainMonotone ==
  (audio_pc = "in" /\ ~mute /\ volume >= 1) =>
    \A i \in 1..Len(out) :
      RawRead(i) # 128 =>
        IF volume < 7
        THEN Magnitude(out[i]) < LevelMagnitude(RawRead(i), volume + 1)
        ELSE Magnitude(out[i]) = LevelMagnitude(RawRead(i), 7)

\* the smallest deviation at level 6, below what level 7 gives it
C9_Witness ==
  /\ audio_pc = "in"
  /\ ~mute
  /\ volume = 6
  /\ buffer = <<129>>
  /\ out = <<32768 + 128>>

\* C10: set_data(offset, samples) changes only the buffer cells at
\* (offset + i) % buf_size for i in 0..len(samples): while it runs, current,
\* called, mute, volume, buf_size and every other cell keep their values, and a
\* zero-length slice changes nothing.
C10_SetDataFrame ==
  [][(ctl.pc = "in" /\ ctl.op = "set_data") =>
       /\ current' = current
       /\ called' = called
       /\ mute' = mute
       /\ volume' = volume
       /\ buf_size' = buf_size
       /\ DOMAIN buffer' = DOMAIN buffer
       /\ \A j \in DOMAIN buffer :
            buffer'[j] # buffer[j] =>
              j \in {Cell(ctl.offset, i) : i \in 0..(Len(ctl.sound) - 1)}]_vars

\* the elements of its slice a set_data has written when this step is over
Applied ==
  IF ctl'.pc = "panicked" /\ buf_size # 0 THEN ctl.a ELSE ctl.a - 1

\* C11: a callback reads the buffer as the completed set_data calls left it:
\* no callback runs while a set_data is writing, the buffer does not change
\* while the audio thread holds the lock, and set_data gives the lock up only
\* with all of its slice written (or none of it), never a part of it.
C11_WritesVisibleWhole ==
  /\ [](audio_pc = "in" => ~(ctl.op = "set_data" /\ ctl.pc = "in"))
  /\ [][lock = "audio" => buffer' = buffer]_vars
  /\ [][(ctl.op = "set_data" /\ ctl.pc = "in" /\ lock' = "free") =>
          (Applied = 0 \/ Applied = Len(ctl.sound))]_vars

\* the sample mixed from the cell under the cursor at the volume of the store
MixedFromBuffer ==
  IF volume = 0
  THEN SETUP_U16
  ELSE (buffer[(current % buf_size) + 1] - SETUP_U8) * 2 ^ (Min(volume, 7) + 1)
         + SETUP_U16

\* C12: set_mute takes effect on the next mixed sample: the flag is the value of
\* the last set_mute that returned (only set_mute changes it, and it returns
\* with the flag stored), every sample mixed while the flag is set is 32768, and
\* every sample mixed while it is clear is computed from the buffer and volume.
C12_MuteOnNextSample ==
  /\ []((ctl.op = "set_mute" /\ ctl.pc = "ret") => mute = ctl.specifier)
  /\ [][mute' # mute => (ctl.op = "set_mute" /\ ctl.pc = "in")]_vars
  /\ [][Len(out') = Len(out) + 1 =>
          out'[Len(out')] = IF mute THEN SETUP_U16 ELSE MixedFromBuffer]_vars

\* after a set_mute(true) has returned, a sample was mixed at the largest
\* volume from a loud cell, and it is the neutral one
C12_Witness ==
  /\ audio_pc = "in"
  /\ ctl.pc = "idle"
  /\ mute
  /\ volume = U16_MAX
  /\ out_len = 1
  /\ out = <<SETUP_U16>>
  /\ buf_size >= 1
  /\ buffer[((current - 1) % buf_size) + 1] = U8_MAX

\* the steps of the two contexts inside their critical sections
ControlStep ==
  set_mute \/ set_volume \/ set_data \/ set_data_rem_panic
    \/ set_data_overflow_panic \/ accessor \/ control_return

AudioStep == callback \/ callback_return \/ unlock_audio

\* C13: no operation blocks indefinitely: whoever holds the lock can take its
\* next step without waiting for the other context, so that it finishes and
\* releases the lock, and a context waiting for the lock can take it as soon as
\* it is free; every callback invocation comes to its completion.
C13_HolderProceeds ==
  /\ lock = "control" => ENABLED ControlStep
  /\ lock = "audio" => ENABLED AudioStep
  /\ (lock = "free" /\ ctl.pc = "lock") => ENABLED lock_control
  /\ (lock = "free" /\ audio_pc = "wait") => ENABLED lock_audio

\* C14: current never decreases and is never reset, and the buffer index read
\* for consecutive samples advances by exactly 1 modulo buf_size, however many
\* samples the callbacks have mixed.
C14_CurrentMonotone ==
  /\ [][current' >= current]_vars
  /\ [][(Len(out') = Len(out) + 1 /\ audio_pc' # "panicked" /\ buf_size # 0) =>
          current' % buf_size = ((current % buf_size) + 1) % buf_size]_vars

\* the cell C15 names for element i (from 0) of set_data(offset, sound)
StartThenWrap(offset, i) == (((offset % buf_size) + i) % buf_size) + 1

\* C15: set_data accepts every offset of the unsigned word: for every offset
\* and every slice it completes without failure, and it writes element i at
\* index ((offset % buf_size) + i) % buf_size.
C15_AnyOffset ==
  /\ [](ctl.pc # "panicked")
  /\ [][(ctl.op = "set_data" /\ ctl.pc = "in" /\ ctl'.a = ctl.a + 1) =>
          buffer' = [buffer EXCEPT ![StartThenWrap(ctl.offset, ctl.a - 1)] =
                                      ctl.sound[ctl.a]]]_vars

\* the store as the claim says open_device(len) creates it, for some len
FreshStore ==
  /\ buf_size \in 0..MaxLen
  /\ Len(buffer) = buf_size
  /\ \A i \in 1..buf_size : buffer[i] = 128
  /\ volume = 0
  /\ mute = FALSE
  /\ current = 0
  /\ called = 0

\* C16: a store created by open_device(len) has len cells of 128, buf_size =
\* len, volume 0, mute false, current 0 and called 0; the volume stays 0 until a
\* set_volume with a non-zero value, and every sample mixed until then is 32768.
C16_FreshStoreSilent ==
  /\ FreshStore
  /\ [][(volume = 0 /\ volume' # 0) =>
          (ctl.op = "set_volume" /\ ctl.pc = "in" /\ ctl.level # 0)]_vars
  /\ [][(volume = 0 /\ Len(out') = Len(out) + 1) => out'[Len(out')] = 32768]_vars

\* two samples mixed at the initial volume, not muted, the last one with a loud
\* cell under the cursor
C16_Witness ==
  /\ audio_pc = "in"
  /\ volume = 0
  /\ ~mute
  /\ out = <<32768, 32768>>
  /\ buf_size >= 1
  /\ buffer[((current - 1) % buf_size) + 1] = U8_MAX

\* set_data is about to store an element, the callback about to read a cell
SetDataIndexes ==
  ctl.op = "set_data" /\ ctl.pc = "in" /\ ctl.a <= Len(ctl.sound) /\ buf_size # 0

CallbackIndexes ==
  audio_pc = "in" /\ Len(out) < out_len /\ ~silent /\ buf_size # 0

\* C17: buf_size is the length of the buffer in every reachable state and no
\* step changes either; every index set_data and the callback compute is below
\* buf_size, so the callback reads a cell of the buffer and never substitutes
\* 128 for a missing one.
C17_IndexInBounds ==
  /\ [](/\ buf_size = Len(buffer)
        /\ SetDataIndexes =>
             /\ ctl.pos % buf_size < buf_size
             /\ data_index(ctl.pos, buf_size) \in DOMAIN buffer
        /\ CallbackIndexes =>
             /\ current % buf_size < buf_size
             /\ (current % buf_size) + 1 \in DOMAIN buffer
             /\ raw_sample(current % buf_size) = buffer[(current % buf_size) + 1])
  /\ [][buf_size' = buf_size /\ Len(buffer') = Len(buffer)]_vars

\* the callback is about to read a cell with the cursor past the end of a
\* two-cell buffer, while a set_data waits for the lock
C17_Witness ==
  /\ CallbackIndexes
  /\ buf_size = 2
  /\ current = 2
  /\ ctl.op = "set_data"
  /\ ctl.pc = "lock"

\* what the method in progress has to show when its statement is done
Returned ==
  CASE ctl.op = "set_volume" -> volume = ctl.level
    [] ctl.op = "set_mute" -> mute = ctl.specifier
    [] ctl.op = "volume" -> ctl.ret = volume
    [] ctl.op = "mute" -> ctl.ret_mute = mute
    [] ctl.op = "buf_size" -> ctl.ret = buf_size
    [] ctl.op = "current" -> ctl.ret = current
    [] ctl.op = "called" -> ctl.ret = called
    [] OTHER -> TRUE

\* C18: set_volume and set_mute store the value passed, whatever it is, and
\* change no other field; nothing else changes volume or mute, so volume() and
\* mute() return the last value passed; every accessor returns the field as it
\* is and leaves the whole store unchanged.
C18_SettersAndSnapshots ==
  /\ [](ctl.pc = "ret" => Returned)
  /\ [][volume' # volume => (ctl.op = "set_volume" /\ ctl.pc = "in")]_vars
  /\ [][mute' # mute => (ctl.op = "set_mute" /\ ctl.pc = "in")]_vars
  /\ [][(ctl.op = "set_volume" /\ ctl.pc \in {"in", "ret"}) =>
          UNCHANGED <<buffer, buf_size, mute, current, called>>]_vars
  /\ [][(ctl.op = "set_mute" /\ ctl.pc \in {"in", "ret"}) =>
          UNCHANGED <<buffer, buf_size, volume, current, called>>]_vars
  /\ [][(ctl.op \in Accessors /\ ctl.pc \in {"in", "ret"}) =>
          UNCHANGED sound_vars]_vars

\* volume() returns the largest u16, far above the gain ladder, after callbacks
\* have run
C18_Witness ==
  /\ ctl.pc = "ret"
  /\ ctl.op = "volume"
  /\ ctl.ret = U16_MAX
  /\ called >= 1

\* output + SETUP_U16 in i32, before `as u16`, for the sample out[i]
Wide(i) ==
  IF silent
  THEN SETUP_U16
  ELSE scaled_singed_sample(RawRead(i) - SETUP_U8, volume) + SETUP_U16

\* C19: for every raw sample 0..255 and every volume the scaled deviation plus
\* 32768, computed in i32, lies in 0..65535, so the u16 emitted is that integer;
\* it is at least 0, reached for raw 0 at volume >= 7, and at most 65280,
\* reached for raw 255 at volume >= 7.
C19_NarrowingExact ==
  audio_pc = "in" =>
    \A i \in 1..Len(out) :
      /\ 0 <= Wide(i)
      /\ Wide(i) <= 65280
      /\ 65280 <= U16_MAX
      /\ out[i] = Wide(i)
      /\ (volume >= 7 /\ RawRead(i) = 0) => Wide(i) = 0
      /\ (volume >= 7 /\ RawRead(i) = U8_MAX) => Wide(i) = 65280

\* the highest raw sample at the top of the ladder, emitted twice as 65280
C19_Witness ==
  /\ audio_pc = "in"
  /\ volume = 7
  /\ buffer = <<U8_MAX>>
  /\ out = <<65280, 65280>>

====
